---- MODULE Spec2Model ----
(***************************************************************************)
(* A model of PyParadise's Spectrum1D fitting engine                       *)
(* (src/PyParadise/spectrum1d.py, src/PyParadise/data.py).                 *)
(*                                                                         *)
(* A spectrum is its data, error and mask on the fixed wavelength grid     *)
(* SpecWave.  Python's None is the empty tuple None; an optional scalar v  *)
(* is <<v>>.  Floating point values are small integers; chi-square is      *)
(* carried multiplied by ChiScale so that 1/sigma^2 stays an integer.      *)
(***************************************************************************)
EXTENDS Integers, Sequences, FiniteSets, TLC

VARIABLES data, error, mask, normalization, pc, args, res, loop, hist, outer

vars == <<data, error, mask, normalization, pc, args, res, loop, hist, outer>>

-----------------------------------------------------------------------------
(* Bounds of the model *)

NPix == 3

MaxB == 2

MaxW == 2

MaxIter == 2

-----------------------------------------------------------------------------
(* Values *)

None == << >>

Some(v) == <<v>>

Pix == 1..NPix

SpecWave == [i \in Pix |-> i]

DataChoices ==
    {[i \in Pix |-> 0], [i \in Pix |-> 2],
     [i \in Pix |-> IF i = 1 THEN 2 ELSE 0], [i \in Pix |-> i]}

ChiScale == 2 * 2

Ones == [i \in Pix |-> 1]

RECURSIVE SumTo(_, _)
SumTo(f, n) == IF n = 0 THEN 0 ELSE f[n] + SumTo(f, n - 1)

SeqSum(f) == SumTo(f, Len(f))

LogicalOr(a, b) == [i \in 1..Len(a) |-> a[i] \/ b[i]]

MaskSum(m) == SeqSum([i \in 1..Len(m) |-> IF m[i] THEN 1 ELSE 0])

-----------------------------------------------------------------------------
(* The template library (SSPlibrary): B templates on a shared grid *)

TemplateAt(k, lam) == (lam % k) + 1

MakeLib(B, w) ==
    [wave |-> w,
     base |-> [k \in 1..B |-> [i \in 1..Len(w) |-> TemplateAt(k, w[i])]]]

LibWaves ==
    {SpecWave, [i \in 1..(NPix + 1) |-> i], [i \in Pix |-> i + 1]}

getBaseNumber(lib) == Len(lib.base)

RECURSIVE SelectSeq2(_, _, _)
SelectSeq2(s, select, n) ==
    IF n = 0 THEN << >>
    ELSE IF select[n] THEN Append(SelectSeq2(s, select, n - 1), s[n])
         ELSE SelectSeq2(s, select, n - 1)

subLibrary(lib, select) ==
    [wave |-> lib.wave, base |-> SelectSeq2(lib.base, select, Len(lib.base))]

OneHot(B, i) == [k \in 1..B |-> k = i]

Smooth(t, disp) ==
    IF disp = 0 THEN t
    ELSE [i \in 1..Len(t) |->
            t[i] + (IF i > 1 THEN t[i - 1] ELSE 0)
                 + (IF i < Len(t) THEN t[i + 1] ELSE 0)]

LibApplyGaussianLOSVD(lib, vel, disp) ==
    [wave |-> [i \in 1..Len(lib.wave) |-> lib.wave[i] + vel],
     base |-> [k \in 1..Len(lib.base) |-> Smooth(lib.base[k], disp)]]

InterpAt(w, t, lam) ==
    LET below == {i \in 1..Len(w) : w[i] <= lam}
    IN  IF below = {} THEN t[1]
        ELSE t[CHOOSE i \in below : \A j \in below : j <= i]

resampleBase(lib, newwave) ==
    [wave |-> newwave,
     base |-> [k \in 1..Len(lib.base) |->
                 [i \in 1..Len(newwave) |-> InterpAt(lib.wave, lib.base[k], newwave[i])]]]

-----------------------------------------------------------------------------
(* fit_linearComb: the linear superposition solver *)

LinComb(base, coeff) ==
    [i \in 1..Len(base[1]) |->
        SeqSum([k \in 1..Len(base) |-> coeff[k] * base[k][i]])]

chisq(model, y, sigma, m) ==
    SeqSum([i \in 1..Len(y) |->
        IF m[i] THEN 0
        ELSE (y[i] - model[i]) * (y[i] - model[i]) * (ChiScale \div (sigma[i] * sigma[i]))])

WeightGrid(B, negative) ==
    [1..B -> IF negative THEN (0 - 1)..MaxW ELSE 0..MaxW]

Minimum(vals) == CHOOSE c \in vals : \A c2 \in vals : c <= c2

ArgMin(base, y, sigma, m, grid, best) ==
    CHOOSE w \in grid : chisq(LinComb(base, w), y, sigma, m) = best

fit(base, y, sigma, m, negative) ==
    CHOOSE w \in
      {ArgMin(base, y, sigma, m, WeightGrid(Len(base), negative), best) :
         best \in {Minimum({chisq(LinComb(base, v), y, sigma, m) :
                              v \in WeightGrid(Len(base), negative)})}} :
      TRUE

-----------------------------------------------------------------------------
(* Spectrum1D.fitSuperposition *)

ErrorForFit(e) == IF e = None THEN Ones ELSE e

MaskForFit(m, mask_fit) ==
    IF mask_fit # None /\ m # None THEN LogicalOr(m, mask_fit)
    ELSE IF mask_fit # None THEN mask_fit
    ELSE m

NoDataLeft_Gt(m) == MaskSum(m) > Len(m)

NoDataLeft(m) == MaskSum(m) = Len(m)

NeedsResample_SameLenOnly(lib) ==
    /\ Len(lib.wave) = Len(SpecWave)
    /\ SeqSum([i \in 1..Len(SpecWave) |-> lib.wave[i] - SpecWave[i]]) # 0

NeedsResample(lib) ==
    \/ Len(lib.wave) # Len(SpecWave)
    \/ SeqSum([i \in 1..Len(SpecWave) |-> lib.wave[i] - SpecWave[i]]) # 0

ChisqSigma_Unit(err) == Ones

ChisqSigma(err) == err

IsSingle_Never(lib) == FALSE

IsSingle(lib) == getBaseNumber(lib) = 1

FitNegative(negative) == negative

SingleCoeff == <<1>>

Raised(exc, m) ==
    [status |-> exc, auto |-> FALSE, coeff |-> None, bestfit |-> None,
     bestmask |-> None, chi2 |-> None, mask |-> m, log |-> << >>, subs |-> << >>]

(* A value bound by \in {e} is evaluated once, where a LET definition is
   evaluated at each use. *)

(* lines 341-346: the library as the solver gets it *)
PrepareLib(lib, vel, disp) ==
    LET broaden == vel # None /\ disp # None
    IN  CHOOSE out \in
          {[lib |-> IF NeedsResample(lib1) THEN resampleBase(lib1, SpecWave) ELSE lib1,
            single |-> IsSingle(lib1),
            log |-> (IF broaden THEN <<"broaden">> ELSE << >>)
                    \o (IF NeedsResample(lib1) THEN <<"resample">> ELSE << >>)] :
             lib1 \in {IF broaden THEN LibApplyGaussianLOSVD(lib, vel[1], disp[1]) ELSE lib}} :
          TRUE

(* lines 352-354: the best fit, its chi-square and the tuple returned *)
FitResult(d, err, m1, prep, coeff) ==
    CHOOSE out \in
      {[status |-> "ok", auto |-> FALSE, coeff |-> coeff, bestfit |-> bestfit,
        bestmask |-> m1, chi2 |-> Some(chisq(bestfit, d, ChisqSigma(err), m1)),
        mask |-> m1,
        log |-> prep.log \o (IF prep.single THEN << >> ELSE <<"fit">>) \o <<"chisq">>,
        subs |-> << >>] :
         bestfit \in {LinComb(prep.lib.base, coeff)}} :
      TRUE

(* lines 347-351: weight 1 for a single template, else the solver *)
FitPrepared(d, err, m1, prep, negative) ==
    CHOOSE out \in
      {FitResult(d, err, m1, prep, coeff) :
         coeff \in {IF prep.single THEN SingleCoeff
                    ELSE fit(prep.lib.base, d, err, m1, FitNegative(negative))}} :
      TRUE

fitSuperpositionDirect(d, e, m, lib, vel, disp, mask_fit, negative) ==
    CHOOSE out \in
      {IF m1 = None THEN Raised("AttributeError", m1)
       ELSE IF NoDataLeft(m1) THEN Raised("ValueError", m1)
       ELSE CHOOSE r \in {FitPrepared(d, ErrorForFit(e), m1, prep, negative) :
                            prep \in {PrepareLib(lib, vel, disp)}} : TRUE :
         m1 \in {MaskForFit(m, mask_fit)}} :
      TRUE

ChiLess_OrEqual(c, best) == best = None \/ c[1] <= best[1]

(* result[-1] < bestresult[-1], with bestresult = [inf] held as None *)
ChiLess(c, best) == best = None \/ c[1] < best[1]

AutoStart(m) ==
    [status |-> "ok", best |-> [chi2 |-> None], coeff |-> None,
     mask |-> m, log |-> << >>, subs |-> << >>]

(* lines 326-328: keep the sub-fit if its chi-square is lower *)
AutoKeep(acc, r, select) ==
    IF r.status # "ok"
    THEN [acc EXCEPT !.status = r.status, !.mask = r.mask]
    ELSE [status |-> "ok",
          best |-> IF ChiLess(r.chi2, acc.best.chi2) THEN r ELSE acc.best,
          coeff |-> IF ChiLess(r.chi2, acc.best.chi2) THEN select ELSE acc.coeff,
          mask |-> r.mask,
          log |-> acc.log \o r.log,
          subs |-> Append(acc.subs, r)]

(* lines 321-325: one pass of the loop over the templates *)
AutoStep(acc, i, d, e, lib, vel, disp, mask_fit, negative) ==
    IF acc.status # "ok" THEN acc
    ELSE CHOOSE out \in
           {AutoKeep(acc, r, OneHot(getBaseNumber(lib), i)) :
              r \in {fitSuperpositionDirect(d, e, acc.mask,
                        subLibrary(lib, OneHot(getBaseNumber(lib), i)),
                        vel, disp, mask_fit, negative)}} :
           TRUE

RECURSIVE AutoLoop(_, _, _, _, _, _, _, _, _)
AutoLoop(i, acc, d, e, lib, vel, disp, mask_fit, negative) ==
    IF i > getBaseNumber(lib) THEN acc
    ELSE CHOOSE out \in
           {AutoLoop(i + 1, next, d, e, lib, vel, disp, mask_fit, negative) :
              next \in {AutoStep(acc, i, d, e, lib, vel, disp, mask_fit, negative)}} :
           TRUE

AutoReturn(acc) ==
    IF acc.status # "ok" THEN Raised(acc.status, acc.mask)
    ELSE IF acc.coeff = None THEN Raised("IndexError", acc.mask)
    ELSE [status |-> "ok", auto |-> TRUE, coeff |-> acc.coeff,
          bestfit |-> acc.best.bestfit, bestmask |-> acc.best.bestmask,
          chi2 |-> acc.best.chi2, mask |-> acc.mask, log |-> acc.log,
          subs |-> acc.subs]

fitSuperpositionAuto(d, e, m, lib, vel, disp, mask_fit, negative) ==
    CHOOSE out \in
      {AutoReturn(acc) :
         acc \in {AutoLoop(1, AutoStart(m), d, e, lib, vel, disp, mask_fit, negative)}} :
      TRUE

fitSuperposition(d, e, m, lib, nlib_guess, vel, disp, mask_fit, negative) ==
    IF nlib_guess = 0
    THEN fitSuperpositionAuto(d, e, m, lib, vel, disp, mask_fit, negative)
    ELSE fitSuperpositionDirect(d, e, m, lib, vel, disp, mask_fit, negative)

-----------------------------------------------------------------------------
(* Inputs *)

ErrorChoices == {None, Ones, [i \in Pix |-> IF i = 1 THEN 2 ELSE 1]}

MaskChoices == {None} \cup [Pix -> BOOLEAN]

MaskFitChoices == {None, [i \in Pix |-> TRUE], [i \in Pix |-> i = 1]}

KinChoices == {<<None, None>>, <<Some(1), None>>, <<Some(1), Some(1)>>}

GuessChoices == {0, 1}

NoLoop == [i |-> 0]

NoOuter == [active |-> FALSE]

-----------------------------------------------------------------------------
(* One call of fitSuperposition on a constructed spectrum *)

InitSpectrum ==
    /\ data \in DataChoices
    /\ error \in ErrorChoices
    /\ mask \in MaskChoices
    /\ normalization = None

InitSup ==
    /\ InitSpectrum
    /\ pc = "idle"
    /\ args = [op |-> "none"]
    /\ res = [status |-> "none"]
    /\ loop = NoLoop
    /\ hist = << >>
    /\ outer = NoOuter

FitSuperposition ==
    /\ pc = "idle"
    /\ \E B \in 1..MaxB, w \in LibWaves, g \in GuessChoices, kin \in KinChoices,
          mf \in MaskFitChoices, neg \in BOOLEAN :
         \E r \in {fitSuperposition(data, error, mask, MakeLib(B, w), g,
                                    kin[1], kin[2], mf, neg)} :
             /\ args' = [op |-> "fitSuperposition", lib |-> MakeLib(B, w),
                         nlib_guess |-> g, vel |-> kin[1], disp |-> kin[2],
                         mask_fit |-> mf, negative |-> neg,
                         data0 |-> data, error0 |-> error, mask0 |-> mask]
             /\ res' = r
             /\ mask' = r.mask
             /\ pc' = IF r.status = "ok" THEN "returned" ELSE "raised"
    /\ UNCHANGED <<data, normalization, error, loop, hist, outer>>

NextSup == FitSuperposition

SpecSup == InitSup /\ [][NextSup]_vars

-----------------------------------------------------------------------------
(* Spectrum1D.fitKinMCMC_fixedpop and Spectrum1D.fit_Kin_Lib_simple *)

DefaultSamples == 200

DefaultThin == 1

VelRange == [min |-> 0, max |-> 4]

DispRange == [min |-> 0, max |-> 2]

(* posterior means a sampler run can report, inside the open prior bounds *)
VelMeans == {v \in 1..NPix : VelRange.min < v /\ v < VelRange.max /\ v # 2}

DispMeans == {1}

CallerCfg == [burn |-> 4, samples |-> 6, thin |-> 2]

WalkerChoices == {2, 3}

CodeChoices == {"emcee", "pymc"}

KinGuessChoices == {0 - 1, 0} \cup 1..(MaxB + 1)

KinErrorChoices == {None, [i \in Pix |-> IF i = 1 THEN 2 ELSE 1]}

KinMaskChoices ==
    {None, [i \in Pix |-> FALSE], [i \in Pix |-> TRUE], [i \in Pix |-> i # 2],
     [i \in Pix |-> i = 1]}

(* the exclusion-mask generator: masks the pixel the rest-frame line falls on *)
maskPixelsObserved(v) == [i \in Pix |-> i = v]

GenChoices == {None, Some("lines")}

(* the interpreter: the module imports copy_reg or, failing that, copyreg *)
PyChoices == {2, 3}

(* line 498: the guess handed to each per-template call *)
SubCallGuess_Negative == 0 - 1

SubCallGuess == 1

BreakAfterFirstPass_Never(nlib_guess) == FALSE

(* line 534: the single-pass break *)
BreakAfterFirstPass(nlib_guess) == nlib_guess < 0

getSpec(lib, n) == lib.base[n]

compositeSpectrum(lib, coeff) == LinComb(lib.base, coeff)

SeedIndex_First(lib, nlib_guess) == 1

(* lines 505-508: the seed template *)
SeedIndex(lib, nlib_guess) ==
    IF 0 < nlib_guess /\ nlib_guess <= getBaseNumber(lib) THEN nlib_guess ELSE 1

InitialMask_NoExclusion(m, gen) == m

(* lines 509-515: the mask in force when the loop starts *)
InitialMask(m, gen) ==
    IF gen = None THEN m
    ELSE LET excl == maskPixelsObserved((VelRange.min + VelRange.max) \div 2)
         IN  IF m # None THEN LogicalOr(m, excl) ELSE excl

RefinedMask_Accumulating(m, mask_init, gen, v) ==
    IF gen = None THEN m
    ELSE LET excl == maskPixelsObserved(v)
         IN  IF m # None THEN LogicalOr(m, excl) ELSE excl

(* lines 537-542: the mask after an iteration that sampled velocity v *)
RefinedMask(m, mask_init, gen, v) ==
    IF gen = None THEN m
    ELSE LET excl == maskPixelsObserved(v)
         IN  IF mask_init # None THEN LogicalOr(mask_init, excl) ELSE excl

(* lines 517-519: the chain count handed to the sampler in iteration i (0-based) *)
WalkersFor(code, walkers, i, iterations) ==
    IF code = "pymc" /\ i # iterations - 1 THEN 1 ELSE walkers

(* lines 400, 419: both samplers index the error array *)
SamplerRaises(e) == e = None

(* lines 544-561: the convergence diagnostic *)
SkipDiagnostic(code, walkers) == code = "pymc" /\ walkers <= 2

Diagnostic(code, walkers, w, cfg) ==
    IF SkipDiagnostic(code, walkers) THEN [kind |-> "zero"]
    ELSE IF code = "pymc" THEN [kind |-> "gelman_rubin"]
    ELSE [kind |-> "between_within", chains |-> w,
          n |-> (cfg.samples \div cfg.thin) - (cfg.burn \div cfg.thin)]

Frame(lib, g, gen, iterations, code, walkers, cfg, m) ==
    [lib |-> lib, nlib_guess |-> g, gen |-> gen, iterations |-> iterations,
     code |-> code, walkers |-> walkers, cfg |-> cfg,
     i |-> 0, seed |-> getSpec(lib, SeedIndex(lib, g)), mask_init |-> m,
     w |-> 0, vel |-> None, disp |-> None,
     coeff |-> None, bestfit |-> None, chi2 |-> None]

Step(kind, sub, seed, w, cfg, m, vel, coeff, chi2) ==
    [step |-> kind, sub |-> sub, seed |-> seed, w |-> w, cfg |-> cfg,
     mask |-> m, vel |-> vel, coeff |-> coeff, chi2 |-> chi2]

KinFailure(exc, where) == [status |-> exc, at |-> where]

InitKin ==
    /\ data \in {[i \in Pix |-> i]}
    /\ error \in KinErrorChoices
    /\ mask \in KinMaskChoices
    /\ normalization = None
    /\ pc = "idle"
    /\ args = [op |-> "none"]
    /\ res = [status |-> "none"]
    /\ loop = NoLoop
    /\ hist = << >>
    /\ outer = NoOuter

(* lines 491-515: entry; nlib_guess = 0 opens the per-template loop *)
Call ==
    /\ pc = "idle"
    /\ \E B \in 1..MaxB, g \in KinGuessChoices, gen \in GenChoices,
          iterations \in 0..MaxIter, code \in CodeChoices, walkers \in WalkerChoices :
         LET lib == MakeLib(B, SpecWave)
         IN  /\ args' = [op |-> "fit_Kin_Lib_simple", lib |-> lib, nlib_guess |-> g,
                         gen |-> gen, iterations |-> iterations, code |-> code,
                         walkers |-> walkers, cfg |-> CallerCfg,
                         data0 |-> data, error0 |-> error, mask0 |-> mask]
             /\ IF g = 0
                THEN /\ \E py \in PyChoices :
                          outer' = [active |-> TRUE, py |-> py, i |-> 1,
                                    best |-> None, coeff |-> None]
                     /\ pc' = "auto"
                     /\ UNCHANGED <<loop, mask>>
                ELSE /\ loop' = Frame(lib, g, gen, iterations, code, walkers, CallerCfg, mask)
                     /\ mask' = InitialMask(mask, gen)
                     /\ pc' = "loop"
                     /\ UNCHANGED outer
    /\ UNCHANGED <<data, normalization, error, res, hist>>

(* lines 494-499: the recursive call for template outer.i; the arguments after
   mask_fit are passed by position: iterations, then burn, samples, thin land
   on mcmc_code, walkers, burn *)
AutoSubCall ==
    /\ pc = "auto"
    /\ outer.i <= getBaseNumber(args.lib)
    /\ LET select == OneHot(getBaseNumber(args.lib), outer.i)
           lib == subLibrary(args.lib, select)
           cfg == [burn |-> args.cfg.thin, samples |-> DefaultSamples, thin |-> DefaultThin]
       IN  /\ loop' = Frame(lib, SubCallGuess, args.gen, args.iterations, ToString(args.cfg.burn),
                            args.cfg.samples, cfg, mask)
           /\ mask' = InitialMask(mask, args.gen)
    /\ pc' = "loop"
    /\ UNCHANGED <<data, normalization, error, args, res, hist, outer>>

SubIndex == IF outer.active THEN outer.i ELSE 0

(* lines 516-531: one sampler run *)
SampleKinematics ==
    /\ pc = "loop"
    /\ loop.i < loop.iterations
    /\ LET w == WalkersFor(loop.code, loop.walkers, loop.i, loop.iterations)
       IN  IF SamplerRaises(error)
           THEN /\ pc' = "raised"
                /\ res' = KinFailure("TypeError", "sampler")
                /\ UNCHANGED <<loop, hist>>
           ELSE \E v \in VelMeans, d \in DispMeans :
                  /\ loop' = [loop EXCEPT !.w = w, !.vel = Some(v), !.disp = Some(d)]
                  /\ hist' = Append(hist, Step("sample", SubIndex, loop.seed, w, loop.cfg,
                                               mask, Some(v), None, None))
                  /\ pc' = "solve"
                  /\ UNCHANGED res
    /\ UNCHANGED <<data, normalization, error, mask, args, outer>>

(* lines 532-533: the library broadened at the sampled means, then solved *)
SolveWeights ==
    /\ pc = "solve"
    /\ \E r \in {fitSuperposition(data, error, mask,
                    LibApplyGaussianLOSVD(loop.lib, loop.vel[1], loop.disp[1]),
                    1, None, None, None, FALSE)} :
         IF r.status # "ok"
         THEN /\ pc' = "raised"
              /\ res' = KinFailure(r.status, "solver")
              /\ mask' = r.mask
              /\ UNCHANGED <<loop, hist>>
         ELSE /\ loop' = [loop EXCEPT !.coeff = r.coeff, !.bestfit = r.bestfit,
                                      !.chi2 = r.chi2]
              /\ hist' = Append(hist, Step("solve", SubIndex, loop.seed, loop.w, loop.cfg,
                                           mask, loop.vel, r.coeff, r.chi2))
              /\ mask' = r.mask
              /\ pc' = "update"
              /\ UNCHANGED res
    /\ UNCHANGED <<data, normalization, error, args, outer>>

(* lines 534-542: break on a negative guess, else the composite seed and the
   refined mask *)
UpdateComposite ==
    /\ pc = "update"
    /\ IF BreakAfterFirstPass(loop.nlib_guess)
       THEN /\ pc' = "diagnose"
            /\ UNCHANGED <<loop, mask>>
       ELSE /\ loop' = [loop EXCEPT !.seed = compositeSpectrum(loop.lib, loop.coeff),
                                    !.i = loop.i + 1]
            /\ mask' = RefinedMask(mask, loop.mask_init, loop.gen, loop.vel[1])
            /\ pc' = IF loop.i + 1 < loop.iterations THEN "loop" ELSE "diagnose"
    /\ UNCHANGED <<data, normalization, error, args, res, hist, outer>>

LoopExhausted ==
    \/ pc = "diagnose"
    \/ pc = "loop" /\ loop.i >= loop.iterations

(* lines 544-566: diagnostics and the 11-tuple returned; with no iteration run
   the names bound inside the loop are unbound *)
Diagnose ==
    /\ LoopExhausted
    /\ IF loop.vel = None
       THEN /\ pc' = "raised"
            /\ res' = KinFailure("UnboundLocalError", "return")
       ELSE LET R == Diagnostic(loop.code, loop.walkers, loop.w, loop.cfg)
                r == [status |-> "ok", width |-> 11, vel |-> loop.vel, Rvel |-> R,
                      disp |-> loop.disp, Rdisp |-> R, bestfit |-> loop.bestfit,
                      coeff |-> loop.coeff, chi2 |-> loop.chi2, last |-> None]
            IN  /\ res' = r
                /\ pc' = IF outer.active THEN "compare" ELSE "done"
    /\ UNCHANGED <<data, normalization, error, mask, args, loop, hist, outer>>

(* lines 500-502: result[-1] < bestresult[-1]; result[-1] is the trace slot,
   None.  Python 3 raises TypeError on None < float; Python 2 orders None
   below every number and below nothing else. *)
AutoCompare ==
    /\ pc = "compare"
    /\ IF outer.py = 3
       THEN /\ pc' = "raised"
            /\ res' = KinFailure("TypeError", "compare")
            /\ UNCHANGED outer
       ELSE /\ pc' = "auto"
            /\ outer' = [outer EXCEPT !.i = outer.i + 1,
                                      !.best = IF outer.best = None THEN Some(res) ELSE outer.best,
                                      !.coeff = IF outer.best = None
                                                THEN OneHot(getBaseNumber(args.lib), outer.i)
                                                ELSE outer.coeff]
            /\ UNCHANGED res
    /\ UNCHANGED <<data, normalization, error, mask, args, loop, hist>>

(* line 503: nine names unpacked from bestresult, an 11-tuple *)
AutoUnpack ==
    /\ pc = "auto"
    /\ outer.i > getBaseNumber(args.lib)
    /\ pc' = "raised"
    /\ res' = KinFailure("ValueError", "unpack")
    /\ UNCHANGED <<data, normalization, error, mask, args, loop, hist, outer>>

NextKin ==
    \/ Call
    \/ AutoSubCall
    \/ SampleKinematics
    \/ SolveWeights
    \/ UpdateComposite
    \/ Diagnose
    \/ AutoCompare
    \/ AutoUnpack

SpecKin == InitKin /\ [][NextKin]_vars

-----------------------------------------------------------------------------
(* Properties of fitSuperposition *)

Finished == pc \in {"returned", "raised"}

SupCall == Finished /\ args.op = "fitSuperposition"

(* every point is masked once mask_fit has been unioned into the mask *)
UnionAllMasked ==
    /\ args.mask0 # None \/ args.mask_fit # None
    /\ \A i \in Pix : \/ (args.mask0 # None /\ args.mask0[i])
                      \/ (args.mask_fit # None /\ args.mask_fit[i])

UnionHasMask == args.mask0 # None \/ args.mask_fit # None

Count(s, x) == Cardinality({i \in 1..Len(s) : s[i] = x})

(* C1: a call with nlib_guess # 0 on a spectrum whose points are all masked
   after the union with mask_fit raises ValueError before the library is
   broadened, resampled or solved, and yields no weights, best fit or
   chi-square. *)
C1_FullyMaskedFails ==
    (SupCall /\ args.nlib_guess # 0 /\ UnionAllMasked) =>
        /\ pc = "raised"
        /\ res.status = "ValueError"
        /\ res.log = << >>
        /\ res.coeff = None /\ res.bestfit = None /\ res.chi2 = None

C1_Witness ==
    /\ SupCall /\ args.nlib_guess # 0 /\ UnionAllMasked
    /\ args.mask0 # None /\ ~NoDataLeft(args.mask0)
    /\ args.mask_fit # None
    /\ res.status = "ValueError"

(* C2 as stated: whenever the library grid and the spectrum grid differ in
   length the call fails, and the library is never resampled. *)
C2_GridLengthMismatchFails ==
    (SupCall /\ Len(args.lib.wave) # Len(SpecWave)) =>
        (pc = "raised" /\ Count(res.log, "resample") = 0)

(* C2 amended: a grid of another length is no failure; the call resamples the
   library onto the spectrum's grid once per fit it runs, fails exactly when it
   would fail with equal grids (no mask, or no unmasked point), and returns a
   best fit on the spectrum's grid. *)
C2_GridLengthMismatchResamples ==
    (SupCall /\ Len(args.lib.wave) # Len(SpecWave)) =>
        /\ (pc = "returned") = (UnionHasMask /\ ~UnionAllMasked)
        /\ pc = "returned" =>
             /\ Count(res.log, "resample") = Count(res.log, "chisq")
             /\ Count(res.log, "chisq") =
                  (IF args.nlib_guess = 0 THEN getBaseNumber(args.lib) ELSE 1)
             /\ Len(res.bestfit) = Len(SpecWave)

C2_Witness ==
    /\ SupCall /\ Len(args.lib.wave) # Len(SpecWave)
    /\ pc = "returned" /\ args.nlib_guess # 0
    /\ getBaseNumber(args.lib) > 1
    /\ res.log = <<"resample", "fit", "chisq">>

(* C3: the data, error and mask of the spectrum are the same after a call of
   fitSuperposition as before it, whether it returns or fails. *)
C3_NoSideEffect ==
    SupCall => (data = args.data0 /\ error = args.error0 /\ mask = args.mask0)

RECURSIVE ChiOver(_, _, _, _)
ChiOver(S, y, model, e) ==
    IF S = {} THEN 0
    ELSE LET i == CHOOSE j \in S : TRUE
             sig == IF e = None THEN 1 ELSE e[i]
             r == y[i] - model[i]
         IN  ((r * r * ChiScale) \div (sig * sig)) + ChiOver(S \ {i}, y, model, e)

Unmasked == {i \in Pix : ~mask[i]}

WeightAt(k) ==
    IF res.auto THEN (IF res.coeff[k] THEN 1 ELSE 0) ELSE res.coeff[k]

(* C4: a result returned with negative = False has every weight >= 0, and its
   chi-square is the chi-square of (data, returned best fit, error, mask) over
   the unmasked points, weighted by the spectrum's error (unit errors when it
   has none). *)
C4_NonNegativeAndChiSquare ==
    (SupCall /\ pc = "returned" /\ ~args.negative) =>
        /\ \A k \in 1..Len(res.coeff) : WeightAt(k) >= 0
        /\ res.chi2 = Some(ChiOver(Unmasked, data, res.bestfit, error))

C4_Witness ==
    /\ SupCall /\ pc = "returned" /\ ~args.negative /\ ~res.auto
    /\ Count(res.log, "fit") = 1
    /\ error # None /\ \E i \in Unmasked : error[i] > 1 /\ data[i] # res.bestfit[i]
    /\ \E i \in Pix : mask[i] /\ data[i] # res.bestfit[i]
    /\ res.chi2[1] > 0

(* the single template as the fit sees it: broadened when vel and disp are
   given, then brought onto the spectrum's grid *)
PreparedLib ==
    LET lib1 == IF args.vel # None /\ args.disp # None
                THEN LibApplyGaussianLOSVD(args.lib, args.vel[1], args.disp[1])
                ELSE args.lib
    IN  IF NeedsResample(lib1) THEN resampleBase(lib1, SpecWave) ELSE lib1

(* C5: with a library of exactly one template the returned weight vector is
   [1], no optimisation is run, and the best fit and chi-square are those of
   the template taken with weight 1. *)
C5_SingleTemplate ==
    (SupCall /\ pc = "returned" /\ getBaseNumber(args.lib) = 1) =>
        /\ Len(res.coeff) = 1 /\ WeightAt(1) = 1
        /\ Count(res.log, "fit") = 0
        /\ res.bestfit = PreparedLib.base[1]
        /\ res.chi2 = Some(ChiOver(Unmasked, data, PreparedLib.base[1], error))

C5_Witness ==
    /\ SupCall /\ pc = "returned" /\ getBaseNumber(args.lib) = 1
    /\ args.nlib_guess # 0
    /\ res.coeff = <<1>> /\ res.chi2[1] > 0
    /\ \E w \in WeightGrid(1, FALSE) :
         ChiOver(Unmasked, data, LinComb(PreparedLib.base, w), error) < res.chi2[1]

-----------------------------------------------------------------------------
(* Properties of fit_Kin_Lib_simple *)

KinCall == args.op = "fit_Kin_Lib_simple"

KinRunning == pc \in {"auto", "loop", "solve", "update", "diagnose", "compare"}

Steps(kind, sub) == {k \in 1..Len(hist) : hist[k].step = kind /\ hist[k].sub = sub}

LastSolve(sub) == CHOOSE k \in Steps("solve", sub) : \A j \in Steps("solve", sub) : j <= k

(* C6: in auto mode every per-template fit runs with the caller's iterations,
   burn, samples and thin; only a failure inside a per-template fit ends the
   call without a result; and the call returns the one-hot selection of the
   template whose fit has the lowest chi-square, with that fit's chi-square. *)
C6_AutoReturnsLowestChiSquare ==
    (KinCall /\ args.nlib_guess = 0) =>
        /\ \A k \in 1..Len(hist) : hist[k].cfg = args.cfg
        /\ pc # "auto" => loop.iterations = args.iterations
        /\ pc = "raised" => res.at \in {"sampler", "solver", "return"}
        /\ pc = "done" =>
             /\ Cardinality({k \in 1..Len(res.coeff) : res.coeff[k]}) = 1
             /\ \A s \in 1..getBaseNumber(args.lib) :
                  res.chi2[1] <= hist[LastSolve(s)].chi2[1]

(* C7: with 0 < nlib_guess <= B and iterations >= 1 the steps run are Sample,
   Solve, Sample, Solve, ...; the first sample is seeded with template
   nlib_guess and each later one with the composite of the preceding solve's
   weights; a running call always has a next step (the solve step is guarded by
   its position alone), and a call that returns has
   run exactly `iterations` samples and `iterations` solves and returns the
   weights and chi-square of the last solve. *)
C7_AlternatingIterations ==
    (KinCall /\ 0 < args.nlib_guess /\ args.nlib_guess <= getBaseNumber(args.lib)
             /\ args.iterations >= 1) =>
        /\ Len(hist) <= 2 * args.iterations
        /\ \A k \in 1..Len(hist) :
             /\ hist[k].step = (IF k % 2 = 1 THEN "sample" ELSE "solve")
             /\ hist[k].seed =
                  (IF k <= 2 THEN args.lib.base[args.nlib_guess]
                   ELSE LinComb(args.lib.base, hist[k - 1 - ((k + 1) % 2)].coeff))
        /\ (KinRunning /\ pc # "solve") => ENABLED NextKin
        /\ pc = "done" =>
             /\ Cardinality(Steps("sample", 0)) = args.iterations
             /\ Cardinality(Steps("solve", 0)) = args.iterations
             /\ res.coeff = hist[Len(hist)].coeff
             /\ res.chi2 = hist[Len(hist)].chi2

C7_Witness ==
    /\ KinCall /\ args.nlib_guess = 2 /\ args.iterations = 2
    /\ pc = "done" /\ Len(hist) = 4
    /\ hist[3].seed # hist[1].seed
    /\ hist[4].coeff # hist[2].coeff

(* C8 as stated: in auto mode each per-template fit runs exactly one Sample
   and one Solve step, whatever `iterations` is. *)
C8_AutoSinglePass ==
    (KinCall /\ args.nlib_guess = 0) =>
        /\ \A s \in 1..getBaseNumber(args.lib) :
             /\ Cardinality(Steps("sample", s)) <= 1
             /\ Cardinality(Steps("solve", s)) <= 1
        /\ pc = "compare" =>
             /\ Cardinality(Steps("sample", outer.i)) = 1
             /\ Cardinality(Steps("solve", outer.i)) = 1

(* C8 amended: in auto mode each per-template fit is called with nlib_guess =
   1, so it does not stop early: a per-template fit that completes has run
   exactly `iterations` Sample and `iterations` Solve steps. *)
C8_AutoFullIterations ==
    (KinCall /\ args.nlib_guess = 0 /\ pc # "auto") =>
        /\ loop.nlib_guess = 1 /\ loop.iterations = args.iterations
        /\ Cardinality(Steps("sample", outer.i)) <= args.iterations
        /\ pc = "compare" =>
             /\ Cardinality(Steps("sample", outer.i)) = args.iterations
             /\ Cardinality(Steps("solve", outer.i)) = args.iterations

C8_Witness ==
    /\ KinCall /\ args.nlib_guess = 0 /\ pc = "compare"
    /\ args.iterations = 2
    /\ Cardinality(Steps("sample", outer.i)) = 2
    /\ Cardinality(Steps("solve", outer.i)) = 2

(* the spectrum's mask unioned with the initial exclusion region leaves no
   usable point *)
InitialAllMasked ==
    /\ args.mask0 # None \/ args.gen # None
    /\ \A i \in Pix :
         \/ (args.mask0 # None /\ args.mask0[i])
         \/ (args.gen # None /\ i = (VelRange.min + VelRange.max) \div 2)

(* C9: when the initial mask leaves no usable point the call never returns a
   result and no solve ever completes: a solve it reaches finds every point
   masked, which raises. *)
C9_NoUsablePointsFails ==
    (KinCall /\ InitialAllMasked) =>
        /\ pc \notin {"done", "update", "compare"}
        /\ pc = "solve" => (mask # None /\ NoDataLeft(mask))

C9_Witness ==
    /\ KinCall /\ InitialAllMasked
    /\ args.gen # None /\ args.mask0 # None /\ ~NoDataLeft(args.mask0)
    /\ args.nlib_guess # 0 /\ args.iterations >= 1
    /\ pc = "raised" /\ res.status = "ValueError" /\ res.at = "solver"

(* C10: a call run with fewer than 3 walkers reports Rvel = Rdisp = 0 and
   evaluates no between/within-chain formula, for either sampler. *)
C10_FewChainsZeroDiagnostic ==
    (KinCall /\ pc = "done" /\ args.walkers < 3) =>
        (res.Rvel.kind = "zero" /\ res.Rdisp.kind = "zero")

-----------------------------------------------------------------------------
(* The ensemble sampler's trace and the between/within-chain diagnostic.  The
   diagnostic is held as its square, an exact fraction num / den. *)

MaxChains == 3

MaxSteps == 4

(* the (vel, disp) sequences a chain can hold over len stored steps *)
ChainPatterns(len) ==
    {[i \in 1..len |-> <<0, 1>>], [i \in 1..len |-> <<i, i % 2>>],
     [i \in 1..len |-> <<i % 2, len - i>>], [i \in 1..len |-> <<len - i, i>>]}

SamplerCfgs ==
    {c \in [burn : 0..MaxSteps, samples : 1..MaxSteps, thin : 1..2] :
        c.samples % c.thin = 0}

(* lines 430-431: sampler.chain[:, burn // thin:, :].T, indexed
   [parameter][step][walker] *)
EmceeTrace(chain, walkers, cfg) ==
    LET steps == cfg.samples \div cfg.thin
        skip == cfg.burn \div cfg.thin
        kept == IF skip >= steps THEN 0 ELSE steps - skip
    IN  [d \in 1..2 |-> [s \in 1..kept |-> [w \in 1..walkers |-> chain[w][s + skip][d]]]]

TraceLen_Chains(trace) == IF trace = << >> THEN 0 ELSE Len(trace[1])

(* line 553: n = trace.shape[0] *)
TraceLen(trace) == Len(trace)

ChainCount(trace) == Len(trace[1])

ChainSum(trace, w) == SeqSum([s \in 1..Len(trace) |-> trace[s][w]])

TraceSum(trace) == SeqSum([w \in 1..ChainCount(trace) |-> ChainSum(trace, w)])

(* k^2 n^2 (k - 1) times numpy.var(trace.mean(axis=0), ddof=1) *)
BetweenNum(trace) ==
    SeqSum([w \in 1..ChainCount(trace) |->
              (ChainCount(trace) * ChainSum(trace, w) - TraceSum(trace))
            * (ChainCount(trace) * ChainSum(trace, w) - TraceSum(trace))])

(* k n^2 (n - 1) times numpy.mean(numpy.var(trace, axis=0, ddof=1)) *)
WithinNum(trace) ==
    SeqSum([w \in 1..ChainCount(trace) |->
              SeqSum([s \in 1..Len(trace) |->
                        (Len(trace) * trace[s][w] - ChainSum(trace, w))
                      * (Len(trace) * trace[s][w] - ChainSum(trace, w))])])

(* lines 553-557: sqrt(1 - 1 / n + B / n / W), squared; 1 / n with n = 0.0
   raises, and a variance with no degree of freedom or W = 0 gives no number *)
RhatSquared(trace) ==
    LET n == TraceLen(trace)
    IN  IF n = 0 THEN [kind |-> "ZeroDivisionError"]
        ELSE LET k == ChainCount(trace)
             IN  IF Len(trace) < 2 \/ k < 2 \/ WithinNum(trace) = 0 THEN [kind |-> "nan"]
                 ELSE [kind |-> "value",
                       num |-> (n - 1) * k * (k - 1) * WithinNum(trace)
                               + BetweenNum(trace) * (Len(trace) - 1) * n,
                       den |-> n * k * (k - 1) * WithinNum(trace)]

InitRhat ==
    /\ data = [i \in Pix |-> i]
    /\ error = Ones
    /\ mask = [i \in Pix |-> FALSE]
    /\ normalization = None
    /\ pc = "idle"
    /\ args = [op |-> "none"]
    /\ res = [status |-> "none"]
    /\ loop = NoLoop
    /\ hist = << >>
    /\ outer = NoOuter

(* lines 425-433: the ensemble run and the trace it returns *)
RunEnsemble ==
    /\ pc = "idle"
    /\ \E walkers \in 2..MaxChains, cfg \in SamplerCfgs :
         \E chain \in [1..walkers -> ChainPatterns(cfg.samples \div cfg.thin)] :
           /\ args' = [op |-> "emcee", walkers |-> walkers, cfg |-> cfg, chain |-> chain]
           /\ loop' = [trace |-> EmceeTrace(chain, walkers, cfg)]
    /\ pc' = "traced"
    /\ UNCHANGED <<data, normalization, error, mask, res, hist, outer>>

(* lines 552-561: the diagnostic of the velocity and of the dispersion trace *)
EnsembleDiagnostic ==
    /\ pc = "traced"
    /\ \E Rv \in {RhatSquared(loop.trace[1])}, Rd \in {RhatSquared(loop.trace[2])} :
         IF Rv.kind = "ZeroDivisionError"
         THEN /\ pc' = "raised"
              /\ res' = KinFailure("ZeroDivisionError", "diagnostic")
         ELSE /\ pc' = "done"
              /\ res' = [status |-> "ok", Rvel |-> Rv, Rdisp |-> Rd]
    /\ UNCHANGED <<data, normalization, error, mask, args, loop, hist, outer>>

NextRhat ==
    \/ RunEnsemble
    \/ EnsembleDiagnostic

SpecRhat == InitRhat /\ [][NextRhat]_vars

(* the sequence chain w holds after burn-in, for parameter d *)
PostBurn(w, d) ==
    [s \in 1..((args.cfg.samples \div args.cfg.thin) - (args.cfg.burn \div args.cfg.thin)) |->
        args.chain[w][s + (args.cfg.burn \div args.cfg.thin)][d]]

IdenticalChains == \A w \in 1..args.walkers : args.chain[w] = args.chain[1]

Varies(seq) == \E i, j \in 1..Len(seq) : seq[i] # seq[j]

(* R^2 = 1 - 1/n with n the post-burn samples per chain *)
OneMinusInverse(R, n) == R.kind = "value" /\ R.num * n = R.den * (n - 1) /\ 2 * R.num >= R.den

(* C11: for the ensemble backend, identical chains of n post-burn samples
   with non-zero within-chain variance give, for velocity and for dispersion,
   a diagnostic whose square is 1 - 1/n (between-chain variance 0), n being
   the number of post-burn samples per chain, not the number of chains. *)
C11_IdenticalChainsNearOne ==
    (args.op = "emcee" /\ pc \in {"done", "raised"} /\ IdenticalChains) =>
        /\ Varies(PostBurn(1, 1)) =>
             (pc = "done" /\ BetweenNum(loop.trace[1]) = 0
                /\ OneMinusInverse(res.Rvel, Len(PostBurn(1, 1))))
        /\ Varies(PostBurn(1, 2)) =>
             (pc = "done" /\ BetweenNum(loop.trace[2]) = 0
                /\ OneMinusInverse(res.Rdisp, Len(PostBurn(1, 2))))

C11_Witness ==
    /\ args.op = "emcee" /\ pc = "done" /\ IdenticalChains
    /\ args.walkers = 2 /\ Len(PostBurn(1, 1)) = 3
    /\ Varies(PostBurn(1, 1)) /\ Varies(PostBurn(1, 2))
    /\ res.Rvel.num * 3 = res.Rvel.den * 2

-----------------------------------------------------------------------------
(* fit_Lib_Boots: the bootstrap loop *)

MaxBoot == 2

MaxFail == 1

(* a width is held exactly as mag * 2.354^pow *)
Width(v) == [mag |-> v, pow |-> 0]

(* x * 2.354 *)
TimesFwhmFactor(x) == [mag |-> x.mag, pow |-> x.pow + 1]

Fabs(x) == IF x < 0 THEN 0 - x ELSE x

Zeros(n) == [i \in 1..n |-> 0]

BootsVel == 1

BootsDisp == 1

ModKeepChoices == {67, 100}

(* the emission-line list: one Gaussian line and one of another profile *)
ELineList == <<[name |-> "Ha", profile_type |-> "Gauss"],
               [name |-> "cont", profile_type |-> "TemplateScale"]>>

ParELineChoices == {None, ELineList}

BootsMaskChoices == {None, [i \in Pix |-> i = NPix]}

BootsMaskFitChoices == {None, [i \in Pix |-> i = 1], [i \in Pix |-> TRUE]}

BootsErrChoices == {None, Some(1)}

SolverChoices == {"flaky", "never"}

(* the random outcomes of one draw: the noise realisation, the redrawn
   velocity and the line parameters the line fit converges to *)
DrawVariants == 1..2

Noisy(d, e, variant) ==
    [i \in Pix |-> IF variant = 2 /\ i % 2 = 1 THEN d[i] + e[i] ELSE d[i]]

RedrawnVel(vel, vel_err, variant) == IF variant = 2 THEN vel + vel_err ELSE vel

FittedLine(variant) ==
    IF variant = 2 THEN [flux |-> 2, vel |-> 1, disp |-> 2]
    ELSE [flux |-> 1, vel |-> 0, disp |-> 0 - 1]

(* randomSubLibrary(fraction): a boolean selection keeping that fraction of
   the templates, at least one *)
KeepCount(B, modkeep) == IF (B * modkeep) \div 100 < 1 THEN 1 ELSE (B * modkeep) \div 100

randomSubLibrary(B, modkeep) ==
    {select \in [1..B -> BOOLEAN] :
        Cardinality({k \in 1..B : select[k]}) = KeepCount(B, modkeep)}

(* lines 619-620, 643-644: the library broadened and put on the spectrum's grid *)
KinSSP(lib, v, d) == resampleBase(LibApplyGaussianLOSVD(lib, v, d), SpecWave)

(* line 618: the library is broadened before the loop when an error is missing *)
BroadenOnce(vel_err, disp_err) == vel_err = None \/ disp_err = None

Redraws_Either(vel_err, disp_err) == vel_err # None \/ disp_err # None

(* line 640: the kinematics are redrawn when both errors are given *)
Redraws(vel_err, disp_err) == vel_err # None /\ disp_err # None

(* lines 621-630: one accumulator per Gaussian line, an empty model otherwise *)
NewLineModels(par_eline, bootstraps) ==
    IF par_eline = None THEN None
    ELSE [n \in 1..Len(par_eline) |->
            IF par_eline[n].profile_type = "Gauss"
            THEN [flux |-> Zeros(bootstraps), vel |-> Zeros(bootstraps),
                  fwhm |-> [i \in 1..bootstraps |-> Width(0)]]
            ELSE None]

(* lines 631-636: the spectrum's own mask as the loop sees it *)
BootsMask(m, mask_fit) ==
    LET m0 == IF m = None THEN [i \in Pix |-> FALSE] ELSE m
    IN  IF mask_fit # None THEN LogicalOr(m0, mask_fit) ELSE m0

(* lines 803-807: what fitELines returns for each Gaussian line *)
fitELines(par_eline, fitted) ==
    [n \in 1..Len(par_eline) |->
        IF par_eline[n].profile_type = "Gauss"
        THEN <<fitted.flux, fitted.vel,
               TimesFwhmFactor(Width(Fabs(fitted.disp)))>>
        ELSE None]

(* lines 655-656: the weights scattered into a row of the full library *)
Rank(select, k) == Cardinality({j \in 1..k : select[j]})

Scatter_Front(select, coeff) ==
    [k \in 1..Len(select) |-> IF k <= Len(coeff) THEN coeff[k] ELSE 0]

Scatter(select, coeff) ==
    [k \in 1..Len(select) |-> IF select[k] THEN coeff[Rank(select, k)] ELSE 0]

Slot_First(m) == 1

(* lines 660, 680-682: row m of the matrix and of each accumulator (0-based) *)
Slot(m) == m + 1

FwhmStored_Once(out) == out[3]

(* line 682: the FWHM written to the accumulator *)
FwhmStored(out) == TimesFwhmFactor(out[3])

(* lines 678-682: the accumulators after a successful draw in slot m (0-based) *)
Accumulate(line_models, par_eline, out_model, m) ==
    [n \in 1..Len(par_eline) |->
        IF par_eline[n].profile_type = "Gauss"
        THEN [flux |-> [line_models[n].flux EXCEPT ![Slot(m)] = out_model[n][1]],
              vel |-> [line_models[n].vel EXCEPT ![Slot(m)] = out_model[n][2]],
              fwhm |-> [line_models[n].fwhm EXCEPT ![Slot(m)] = FwhmStored(out_model[n])]]
        ELSE line_models[n]]

(* numpy.std, held as n^2 times the variance; no number for an empty array *)
StdNum(xs) ==
    IF Len(xs) = 0 THEN None
    ELSE Some(Len(xs) * SeqSum([i \in 1..Len(xs) |-> xs[i] * xs[i]])
              - SeqSum(xs) * SeqSum(xs))

(* numpy.std of widths of one power of 2.354 *)
WidthStdNum(ws) ==
    IF Len(ws) = 0 THEN None
    ELSE [num |-> StdNum([i \in 1..Len(ws) |-> ws[i].mag]), pow |-> ws[Len(ws)].pow]

(* lines 699-709: the per-line errors returned *)
LinesError(line_models, par_eline) ==
    IF line_models = None THEN None
    ELSE [n \in 1..Len(par_eline) |->
            IF par_eline[n].profile_type = "Gauss"
            THEN [flux |-> StdNum(line_models[n].flux), vel |-> StdNum(line_models[n].vel),
                  fwhm |-> WidthStdNum(line_models[n].fwhm)]
            ELSE None]

(* lines 687-697: the errors set by a discarded draw *)
NanLinesError(line_models, par_eline) ==
    IF line_models = None THEN None
    ELSE [n \in 1..Len(par_eline) |->
            IF par_eline[n].profile_type = "Gauss"
            THEN [flux |-> "nan", vel |-> "nan", fwhm |-> "nan"]
            ELSE None]

LoopContinues_Inclusive(m, bootstraps) == m <= bootstraps

(* line 639: while m < bootstraps *)
LoopContinues(m, bootstraps) == m < bootstraps

Retried_All(exc) == exc \in {"RuntimeError", "ValueError"}

(* line 657: the failure the loop catches *)
Retried(exc) == exc = "RuntimeError"

(* line 658: -1e10, beyond the model's integer range; any value below
   the threshold of line 659 takes the same branch *)
FailCoeff == 0 - 1000000

Accepted_Always(coeffsum) == TRUE

(* line 659: numpy.sum(coeff) > -10000 *)
Accepted(coeffsum) == coeffsum > 0 - 10000

(* whether the solver may fail to converge in this draw: a flaky solver fails
   at most MaxFail times in a call, a broken one never converges *)
ConvergeChoices(solver, failed) ==
    IF solver = "never" THEN {FALSE}
    ELSE IF failed < MaxFail THEN {TRUE, FALSE} ELSE {TRUE}

MaxDraws == MaxBoot + MaxFail + 1

Capped(n, cap) == IF n < cap THEN n ELSE cap

InitBoots ==
    /\ data = [i \in Pix |-> i]
    /\ error = [i \in Pix |-> IF i = 1 THEN 2 ELSE 1]
    /\ mask \in BootsMaskChoices
    /\ normalization = None
    /\ pc = "idle"
    /\ args = [op |-> "none"]
    /\ res = [status |-> "none"]
    /\ loop = NoLoop
    /\ hist = << >>
    /\ outer = NoOuter

(* lines 616-637: the weight matrix, the fixed library, the accumulators and
   the mask *)
BootsCall ==
    /\ pc = "idle"
    /\ \E vel_err \in BootsErrChoices, disp_err \in BootsErrChoices,
          par_eline \in ParELineChoices, mask_fit \in BootsMaskFitChoices,
          bootstraps \in 0..MaxBoot, modkeep \in ModKeepChoices, solver \in SolverChoices :
         LET lib == MakeLib(MaxB, SpecWave)
         IN  /\ args' = [op |-> "fit_Lib_Boots", lib |-> lib, vel |-> BootsVel,
                         disp |-> BootsDisp, vel_err |-> vel_err, disp_err |-> disp_err,
                         par_eline |-> par_eline, mask_fit |-> mask_fit,
                         bootstraps |-> bootstraps, modkeep |-> modkeep, solver |-> solver,
                         data0 |-> data, error0 |-> error, mask0 |-> mask]
             /\ loop' = [m |-> 0,
                         coeff_full |-> [r \in 1..bootstraps |-> Zeros(getBaseNumber(lib))],
                         kin_SSP |-> IF BroadenOnce(vel_err, disp_err)
                                     THEN KinSSP(lib, BootsVel, BootsDisp)
                                     ELSE None,
                         redraws |-> 0,
                         line_models |-> NewLineModels(par_eline, bootstraps),
                         lines_error |-> None, factors |-> None,
                         draws |-> 0, failed |-> 0, last |-> "none"]
             /\ mask' = BootsMask(mask, mask_fit)
    /\ pc' = "boots"
    /\ UNCHANGED <<data, normalization, error, res, hist, outer>>

(* lines 640-644: the library a draw works with *)
DrawKinSSP(variant) ==
    IF Redraws(args.vel_err, args.disp_err)
    THEN KinSSP(args.lib, RedrawnVel(args.vel, args.vel_err[1], variant), args.disp)
    ELSE loop.kin_SSP

(* lines 640-644: the number of redraws so far *)
DrawRedraws ==
    IF Redraws(args.vel_err, args.disp_err)
    THEN Capped(loop.redraws + 1, MaxDraws)
    ELSE loop.redraws

(* lines 651-658: the solve of one draw and the row it leaves in `factors` *)

DrawOutcome(r, select, converges) ==
    IF r.status # "ok" THEN [exc |-> r.status]
    ELSE IF ~converges /\ \E k \in 1..Len(r.log) : r.log[k] = "fit"
         THEN [exc |-> "RuntimeError"]
         ELSE [exc |-> "none", coeff |-> r.coeff, bestfit |-> r.bestfit,
               factors |-> Scatter(select, r.coeff)]

DrawSolve(variant, select, converges) ==
    CHOOSE out \in
      {DrawOutcome(r, select, converges) :
         r \in {fitSuperposition(noisy, error, mask, sub, 1, None, None, None, FALSE) :
                  noisy \in {Noisy(data, error, variant)},
                  sub \in {subLibrary(DrawKinSSP(variant), select)}}} :
      TRUE

(* lines 659-697: the branch taken with the sum of `coeff`, and the state
   after it *)
AfterDraw(s, variant, select) ==
    LET factors == IF s.exc = "none" THEN s.factors ELSE loop.factors
        coeffsum == IF s.exc = "none" THEN SeqSum(s.coeff) ELSE FailCoeff
        counted == [loop EXCEPT !.draws = Capped(loop.draws + 1, MaxDraws),
                                !.kin_SSP = DrawKinSSP(variant),
                                !.redraws = DrawRedraws,
                                !.factors = factors,
                                !.last = IF s.exc = "none" THEN "ok" ELSE s.exc]
    IN  IF ~Accepted(coeffsum)
        THEN /\ loop' = [counted EXCEPT
                           !.failed = Capped(loop.failed + 1, MaxFail),
                           !.lines_error = NanLinesError(loop.line_models, args.par_eline)]
             /\ UNCHANGED <<pc, res, hist>>
        ELSE IF factors = None
        THEN /\ pc' = "raised"
             /\ res' = [status |-> "NameError", at |-> "draw"]
             /\ loop' = counted
             /\ UNCHANGED hist
        ELSE /\ loop' = [counted EXCEPT
                           !.coeff_full = [loop.coeff_full EXCEPT ![Slot(loop.m)] = factors],
                           !.line_models =
                               IF args.par_eline = None THEN None
                               ELSE Accumulate(loop.line_models, args.par_eline,
                                               fitELines(args.par_eline, FittedLine(variant)),
                                               loop.m),
                           !.m = loop.m + 1]
             /\ hist' = Append(hist, [select |-> select, variant |-> variant,
                                      coeff |-> IF s.exc = "none" THEN s.coeff ELSE None,
                                      factors |-> factors])
             /\ UNCHANGED <<pc, res>>

(* lines 639-697: one pass of the while loop *)
Draw ==
    /\ pc = "boots"
    /\ LoopContinues(loop.m, args.bootstraps)
    /\ loop.m < MaxBoot + 1
    /\ \E variant \in DrawVariants,
          select \in randomSubLibrary(getBaseNumber(args.lib), args.modkeep),
          converges \in ConvergeChoices(args.solver, loop.failed) :
         \E s \in {DrawSolve(variant, select, converges)} :
           IF s.exc # "none" /\ ~Retried(s.exc)
           THEN /\ pc' = "raised"
                /\ res' = [status |-> s.exc, at |-> "draw"]
                /\ loop' = [loop EXCEPT !.draws = Capped(loop.draws + 1, MaxDraws),
                                        !.kin_SSP = DrawKinSSP(variant),
                                        !.redraws = DrawRedraws,
                                        !.last = s.exc]
                /\ UNCHANGED hist
           ELSE AfterDraw(s, variant, select)
    /\ UNCHANGED <<data, normalization, error, mask, args, outer>>

(* lines 699-710: the per-line errors and the tuple returned *)
BootsReturn ==
    /\ pc = "boots"
    /\ ~LoopContinues(loop.m, args.bootstraps)
    /\ res' = [status |-> "ok", coeff_full |-> loop.coeff_full,
               lines_error |-> LinesError(loop.line_models, args.par_eline)]
    /\ pc' = "done"
    /\ UNCHANGED <<data, normalization, error, mask, args, loop, hist, outer>>

NextBoots ==
    \/ BootsCall
    \/ Draw
    \/ BootsReturn

SpecBoots == InitBoots /\ [][NextBoots]_vars

(* a pass of the loop that has started runs to its end: the draw count or the
   position changes *)
DrawStep == pc = "boots" /\ (loop'.draws # loop.draws \/ pc' # pc)

BootsEnded == pc \in {"done", "raised"}

(* the interpreter keeps running the call: the return is taken once the loop
   condition fails, and a loop that has not ended keeps executing passes *)
FairSpecBoots ==
    /\ SpecBoots
    /\ WF_vars(BootsCall)
    /\ WF_vars(BootsReturn)
    /\ ([]<>BootsEnded \/ []<><<DrawStep>>_vars)

-----------------------------------------------------------------------------
(* Properties of fit_Lib_Boots *)

BootsOp == args.op = "fit_Lib_Boots"

BootsAllMasked == \A i \in Pix : BootsMask(args.mask0, args.mask_fit)[i]

(* every draw hands the solver two or more templates *)
SolverAlwaysRuns == KeepCount(getBaseNumber(args.lib), args.modkeep) >= 2

(* C12: a draw whose solve raises the runtime failure leaves the success
   counter m, the weight matrix and every per-line accumulator as they were
   and the loop goes on to another draw; m changes only by a successful draw,
   and then by exactly 1. *)
C12_FailedDrawDiscarded ==
    [][(BootsOp /\ pc = "boots") =>
         /\ (loop'.last = "RuntimeError" /\ loop' # loop) =>
              /\ loop'.m = loop.m
              /\ loop'.coeff_full = loop.coeff_full
              /\ loop'.line_models = loop.line_models
              /\ hist' = hist
              /\ pc' = "boots"
         /\ loop'.m # loop.m => (loop'.m = loop.m + 1 /\ loop'.last = "ok")
         /\ (loop'.last = "ok" /\ loop' # loop) => loop'.m = loop.m + 1]_vars

C12_Witness ==
    /\ BootsOp /\ pc = "boots" /\ args.par_eline # None
    /\ loop.last = "RuntimeError" /\ loop.failed >= 1
    /\ loop.m = 1 /\ loop.coeff_full[1] # Zeros(getBaseNumber(args.lib))
    /\ loop.line_models[1].flux[1] # 0

(* C13: the call returns only with m = bootstraps, after exactly that many
   successful draws; with a solver that fails finitely often the loop
   terminates; with a solver that raises the runtime failure on every draw
   the loop stays in the loop with m = 0 and never returns. *)
C13_ReturnsAfterBootstraps ==
    /\ []((BootsOp /\ pc = "done") =>
            (loop.m = args.bootstraps /\ Len(hist) = args.bootstraps))
    /\ []((BootsOp /\ args.solver = "never" /\ SolverAlwaysRuns
             /\ args.bootstraps > 0 /\ ~BootsAllMasked) =>
            (pc = "boots" /\ loop.m = 0))
    /\ ((BootsOp /\ args.solver = "flaky" /\ ~BootsAllMasked) ~> (pc = "done"))

C13_Witness ==
    /\ BootsOp /\ pc = "done" /\ args.solver = "flaky"
    /\ args.bootstraps = MaxBoot /\ loop.m = MaxBoot
    /\ loop.failed = MaxFail /\ loop.draws = MaxBoot + MaxFail

(* C14: with every point masked the solver's ValueError is not retried: the
   first draw ends the call with that error and no second draw is made. *)
C14_InvalidInputNotRetried ==
    (BootsOp /\ BootsAllMasked) =>
        /\ loop.m = 0 /\ loop.failed = 0 /\ hist = << >>
        /\ pc = "boots" => (loop.draws = 0 /\ loop.last = "none")
        /\ (pc = "boots" /\ args.bootstraps > 0) => ENABLED Draw
        /\ pc = "raised" => (res.status = "ValueError" /\ loop.draws = 1)
        /\ pc = "done" => args.bootstraps = 0

C14_Witness ==
    /\ BootsOp /\ BootsAllMasked /\ args.mask0 # None /\ args.mask_fit # None
    /\ pc = "raised" /\ res.status = "ValueError" /\ loop.draws = 1
    /\ args.bootstraps = MaxBoot

(* C15: the row stored by each successful draw has length B, holds at each
   kept template's position the weight the solver returned for it, in library
   order, and 0 at each excluded template's position. *)
C15_WeightsScattered ==
    (BootsOp /\ pc # "idle") =>
        \A k \in 1..Len(hist) :
            /\ k <= Len(loop.coeff_full)
            /\ Len(loop.coeff_full[k]) = getBaseNumber(args.lib)
            /\ Len(hist[k].coeff) = Cardinality({j \in 1..Len(hist[k].select) : hist[k].select[j]})
            /\ \A j \in 1..getBaseNumber(args.lib) :
                 loop.coeff_full[k][j] =
                    IF hist[k].select[j]
                    THEN hist[k].coeff[Cardinality({i \in 1..j : hist[k].select[i]})]
                    ELSE 0

C15_Witness ==
    /\ BootsOp /\ pc = "done" /\ Len(hist) = 2
    /\ ~hist[1].select[1] /\ loop.coeff_full[1][1] = 0 /\ loop.coeff_full[1][2] > 0
    /\ hist[2].select[1] /\ loop.coeff_full[2][1] > 0

(* C16: for every Gaussian line and every successful draw the FWHM
   accumulated is |fitted dispersion| * 2.354, the FWHM fitELines reports. *)
C16_FwhmAccumulated ==
    (BootsOp /\ pc # "idle" /\ args.par_eline # None) =>
        \A k \in 1..Len(hist) : \A n \in 1..Len(args.par_eline) :
            args.par_eline[n].profile_type = "Gauss" =>
              /\ loop.line_models[n].fwhm[k] =
                    TimesFwhmFactor(Width(Fabs(FittedLine(hist[k].variant).disp)))
              /\ loop.line_models[n].fwhm[k] =
                    fitELines(args.par_eline, FittedLine(hist[k].variant))[n][3]

(* the loop's writes for the successful draws `outcomes`, taken in that order *)
RECURSIVE RunDraws(_, _, _)
RunDraws(outcomes, k, acc) ==
    IF k > Len(outcomes) THEN acc
    ELSE RunDraws(outcomes, k + 1,
           [m |-> acc.m + 1,
            coeff_full |-> [acc.coeff_full EXCEPT ![Slot(acc.m)] = outcomes[k].factors],
            line_models |->
                IF args.par_eline = None THEN None
                ELSE Accumulate(acc.line_models, args.par_eline,
                                fitELines(args.par_eline, FittedLine(outcomes[k].variant)),
                                acc.m)])

BootsOutput(outcomes) ==
    LET start == [m |-> 0,
                  coeff_full |-> [r \in 1..args.bootstraps |->
                                     Zeros(getBaseNumber(args.lib))],
                  line_models |-> NewLineModels(args.par_eline, args.bootstraps)]
        end == RunDraws(outcomes, 1, start)
    IN  [coeff_full |-> end.coeff_full,
         lines_error |-> LinesError(end.line_models, args.par_eline)]

Orderings(n) == {p \in [1..n -> 1..n] : \A i, j \in 1..n : i # j => p[i] # p[j]}

Reorder(seq, p) == [k \in 1..Len(seq) |-> seq[p[k]]]

SameRows(a, b) ==
    /\ Len(a) = Len(b)
    /\ \A k \in 1..Len(a) :
         Cardinality({i \in 1..Len(a) : a[i] = a[k]})
           = Cardinality({i \in 1..Len(b) : b[i] = a[k]})

(* C17 as stated: taking the same draw outcomes in any order gives the same
   weight matrix and the same per-line errors. *)
C17_OrderIndependent ==
    (BootsOp /\ pc = "done") =>
        \A p \in Orderings(Len(hist)) :
            /\ BootsOutput(Reorder(hist, p)).coeff_full = res.coeff_full
            /\ BootsOutput(Reorder(hist, p)).lines_error = res.lines_error

(* C17 amended: row k of the weight matrix is the row of the k-th successful
   draw, so taking the same outcomes in another order gives the same rows in
   another order; the per-line errors are the same, and failed draws,
   wherever they fall, change neither. *)
C17_OrderIndependentUpToRowOrder ==
    (BootsOp /\ pc = "done") =>
        /\ BootsOutput(hist).coeff_full = res.coeff_full
        /\ \A k \in 1..Len(hist) : res.coeff_full[k] = hist[k].factors
        /\ \A p \in Orderings(Len(hist)) :
            /\ SameRows(BootsOutput(Reorder(hist, p)).coeff_full, res.coeff_full)
            /\ BootsOutput(Reorder(hist, p)).lines_error = res.lines_error

C17_Witness ==
    /\ BootsOp /\ pc = "done" /\ Len(hist) = 2 /\ loop.failed >= 1
    /\ args.par_eline # None
    /\ hist[1].factors # hist[2].factors
    /\ hist[1].variant # hist[2].variant
    /\ res.lines_error[1].flux # Some(0)

(* C18: after fit_Lib_Boots has started, and when it has returned or failed,
   the spectrum's data, error and mask are those it had before the call. *)
C18_SpectrumReadOnly ==
    (BootsOp /\ pc \in {"boots", "done", "raised"}) =>
        /\ data = args.data0
        /\ error = args.error0
        /\ mask = args.mask0

(* C19: with an exclusion-mask generator supplied, the spectrum's mask after
   fit_Kin_Lib_simple has returned or failed is the mask it had before. *)
C19_MaskRestored ==
    (KinCall /\ args.gen # None /\ pc \in {"done", "raised"}) =>
        mask = args.mask0

-----------------------------------------------------------------------------
(* Data: operations on the spectrum's own arrays *)

(* the default replace_error, 1e10, held as the largest power of ten within
   the model's integer range *)
ReplaceErrorDefault == 1000 * 1000 * 1000

ReplaceErrorChoices == {ReplaceErrorDefault, 7}

DataErrorChoices == {None} \cup [Pix -> {0 - 1, 0, 1}]

NormalizationChoices ==
    {None, [i \in Pix |-> 2], [i \in Pix |-> IF i = 1 THEN 0 - 2 ELSE i]}

(* lines 134-138 *)
correctError(e, m, replace_error) ==
    IF e = None THEN [error |-> e, mask |-> m]
    ELSE LET select == [i \in Pix |-> e[i] <= 0]
         IN  [error |-> [i \in Pix |-> IF select[i] THEN replace_error ELSE e[i]],
              mask |-> IF m # None THEN [i \in Pix |-> select[i] \/ m[i]] ELSE m]

InitData ==
    /\ data \in {[i \in Pix |-> i], [i \in Pix |-> 0]}
    /\ error \in DataErrorChoices
    /\ mask \in MaskChoices
    /\ normalization \in NormalizationChoices
    /\ pc = "idle"
    /\ args = [op |-> "none"]
    /\ res = [status |-> "none"]
    /\ loop = NoLoop
    /\ hist = << >>
    /\ outer = NoOuter

CorrectError ==
    /\ pc = "idle"
    /\ \E replace_error \in ReplaceErrorChoices :
         \E r \in {correctError(error, mask, replace_error)} :
           /\ args' = [op |-> "correctError", replace_error |-> replace_error,
                       data0 |-> data, error0 |-> error, mask0 |-> mask]
           /\ error' = r.error
           /\ mask' = r.mask
    /\ pc' = "done"
    /\ res' = [status |-> "ok"]
    /\ UNCHANGED <<data, normalization, loop, hist, outer>>

(* a quotient a / b, held exactly, with a positive denominator *)
Quotient(a, b) == IF b < 0 THEN [num |-> 0 - a, den |-> 0 - b] ELSE [num |-> a, den |-> b]

(* the significand of the arrays' floating-point numbers, scaled down from
   the 53 bits of float64 *)
MantissaBits == 3

Exponents == (0 - 6)..6

(* a floating-point operation returns the representable number nearest to
   the exact result, ties to the even significand *)
Round(q) ==
    IF q.num = 0 THEN Quotient(0, 1)
    ELSE
      LET a == Fabs(q.num)
          k == CHOOSE e \in Exponents :
                 LET up == IF e > 0 THEN 2 ^ e ELSE 1
                     down == IF e < 0 THEN 2 ^ (0 - e) ELSE 1
                 IN  /\ 2 ^ (MantissaBits - 1) * q.den * up <= a * down
                     /\ a * down < 2 ^ MantissaBits * q.den * up
          up == IF k > 0 THEN 2 ^ k ELSE 1
          down == IF k < 0 THEN 2 ^ (0 - k) ELSE 1
          x == a * down
          y == q.den * up
          m == x \div y
          r == x - m * y
          mr == IF 2 * r > y \/ (2 * r = y /\ m % 2 = 1) THEN m + 1 ELSE m
      IN  Quotient((IF q.num < 0 THEN 0 - 1 ELSE 1) * mr * up, down)

(* lines 274-282: the new object returned; the mask is handed on as it is *)
unnormalizedSpec(d, e, m, n) ==
    [data |-> [i \in Pix |-> Round(Quotient(d[i] * n[i], 1))],
     error |-> IF e # None
               THEN [i \in Pix |-> Round(Quotient(e[i] * Fabs(n[i]), 1))]
               ELSE None,
     mask |-> m, normalization |-> None]

Unnormalized_Never(n) == FALSE

(* line 286: the object carries no normalization *)
Unnormalized(n) == n = None

(* lines 286-289, on an object obj *)
applyNormalization(obj, n) ==
    IF Unnormalized(obj.normalization)
    THEN [obj EXCEPT
            !.data = [i \in Pix |->
                        Round(Quotient(obj.data[i].num, obj.data[i].den * n[i]))],
            !.error = IF obj.error # None
                      THEN [i \in Pix |->
                              Round(Quotient(obj.error[i].num,
                                             obj.error[i].den * Fabs(n[i])))]
                      ELSE None]
    ELSE obj

(* lines 266-282; data * None raises *)
UnnormalizedSpec ==
    /\ pc = "idle"
    /\ args' = [op |-> "unnormalizedSpec", data0 |-> data, error0 |-> error,
                mask0 |-> mask, normalization0 |-> normalization]
    /\ IF normalization = None
       THEN /\ pc' = "raised"
            /\ res' = [status |-> "TypeError"]
       ELSE /\ pc' = "derived"
            /\ res' = unnormalizedSpec(data, error, mask, normalization)
    /\ UNCHANGED <<data, normalization, error, mask, loop, hist, outer>>

(* lines 284-289, called on the object unnormalizedSpec returned *)
ApplyNormalization ==
    /\ pc = "derived"
    /\ \E n \in NormalizationChoices \ {None} :
         /\ res' = applyNormalization(res, n)
         /\ args' = [op |-> "applyNormalization", n |-> n,
                     data0 |-> args.data0, error0 |-> args.error0,
                     mask0 |-> args.mask0,
                     normalization0 |-> args.normalization0]
    /\ pc' = "done"
    /\ UNCHANGED <<data, normalization, error, mask, loop, hist, outer>>

NextData ==
    \/ CorrectError
    \/ UnnormalizedSpec
    \/ ApplyNormalization

SpecData == InitData /\ [][NextData]_vars

(* C20: after correctError on a spectrum with an error sequence, every index
   whose error was <= 0 holds the sentinel and is masked, with or without a
   mask before; every other index keeps its error and mask value; the data is
   unchanged. *)
C20_InvalidErrorsMasked ==
    (args.op = "correctError" /\ pc = "done" /\ args.error0 # None) =>
        /\ data = args.data0
        /\ \A i \in Pix :
             IF args.error0[i] <= 0
             THEN error[i] = args.replace_error /\ mask # None /\ mask[i]
             ELSE /\ error[i] = args.error0[i]
                  /\ args.mask0 # None => mask[i] = args.mask0[i]

EqualsQuotient(q, v) == q.num = v * q.den

(* two roundings of relative error at most 2^-MantissaBits each *)
WithinTolerance(q, v) ==
    Fabs(q.num - v * q.den) * 2 ^ (2 * MantissaBits)
        <= Fabs(v) * q.den * (2 ^ (MantissaBits + 1) + 1)

RoundTripDone ==
    args.op = "applyNormalization" /\ pc = "done" /\ args.n = args.normalization0

OriginalUntouched ==
    (args.op \in {"unnormalizedSpec", "applyNormalization"}) =>
        /\ data = args.data0 /\ error = args.error0 /\ mask = args.mask0
        /\ normalization = args.normalization0

(* C21 as stated: unnormalizedSpec followed by applyNormalization with the
   spectrum's own non-zero normalization gives data equal to the spectrum's
   data and error equal to its error, and unnormalizedSpec leaves the
   spectrum itself as it was. *)
C21_RoundTripExact ==
    /\ OriginalUntouched
    /\ RoundTripDone =>
         /\ \A i \in Pix : EqualsQuotient(res.data[i], data[i])
         /\ error # None => \A i \in Pix : EqualsQuotient(res.error[i], error[i])
         /\ error = None => res.error = None

(* C21 amended: the round trip gives the spectrum's data and error up to the
   rounding of the multiplication and of the division (exactly when the
   product is a representable number), and unnormalizedSpec leaves the
   spectrum itself as it was. *)
C21_RoundTripWithinTolerance ==
    /\ OriginalUntouched
    /\ RoundTripDone =>
         /\ \A i \in Pix : WithinTolerance(res.data[i], data[i])
         /\ error # None => \A i \in Pix : WithinTolerance(res.error[i], error[i])
         /\ error = None => res.error = None

C21_Witness ==
    /\ RoundTripDone
    /\ normalization[1] < 0 /\ data[1] # 0
    /\ error # None /\ error[1] > 0
    /\ \E i \in Pix : ~EqualsQuotient(res.data[i], data[i])

-----------------------------------------------------------------------------
(* Spectrum1D.hasData (spectrum1d.py, lines 59-86), called any number of
   times on one spectrum that carries a mask. *)

MaxCalls == 2

QueryDataChoices ==
    {[i \in Pix |-> i], [i \in Pix |-> 0],
     [i \in Pix |-> IF i = 1 THEN 1 ELSE IF i = 2 THEN 0 - 1 ELSE 0]}

StartWaveChoices == {None, Some(2), Some(NPix)}

EndWaveChoices == {None, Some(1), Some(2)}

(* line 79: self._wave < start_wave *)
BelowStart(w, start_wave) == [i \in Pix |-> w[i] < start_wave]

(* line 81: self._wave > end_wave *)
AboveEnd(w, end_wave) == [i \in Pix |-> w[i] > end_wave]

(* lines 78-86: the mask assigned to the spectrum and the value returned *)
hasData(d, m, w, start_wave, end_wave) ==
    LET m1 == IF start_wave # None
              THEN LogicalOr(m, BelowStart(w, start_wave[1])) ELSE m
        m2 == IF end_wave # None
              THEN LogicalOr(m1, AboveEnd(w, end_wave[1])) ELSE m1
    IN  [mask |-> m2,
         ret |-> SeqSum(d) # 0 /\ MaskSum(m2) # Len(d)]

InitQuery ==
    /\ data \in QueryDataChoices
    /\ error = None
    /\ mask \in [Pix -> BOOLEAN]
    /\ normalization = None
    /\ pc = "idle"
    /\ args = [op |-> "none"]
    /\ res = [status |-> "none"]
    /\ loop = NoLoop
    /\ hist = << >>
    /\ outer = NoOuter

HasData ==
    /\ pc \in {"idle", "asked"}
    /\ Len(hist) < MaxCalls
    /\ \E start_wave \in StartWaveChoices, end_wave \in EndWaveChoices :
         \E r \in {hasData(data, mask, SpecWave, start_wave, end_wave)} :
           /\ args' = [op |-> "hasData", start_wave |-> start_wave,
                       end_wave |-> end_wave]
           /\ mask' = r.mask
           /\ res' = [status |-> "ok", ret |-> r.ret]
           /\ hist' = Append(hist, [start_wave |-> start_wave,
                                    end_wave |-> end_wave,
                                    mask0 |-> mask, ret |-> r.ret])
    /\ pc' = "asked"
    /\ UNCHANGED <<data, normalization, error, loop, outer>>

NextQuery ==
    \/ HasData

SpecQuery == InitQuery /\ [][NextQuery]_vars

WithinLimits(w, start_wave, end_wave) ==
    /\ start_wave # None => w >= start_wave[1]
    /\ end_wave # None => w <= end_wave[1]

UnmaskedWithin(m, start_wave, end_wave) ==
    \E i \in Pix : ~m[i] /\ WithinLimits(SpecWave[i], start_wave, end_wave)

(* C22: hasData returns True exactly when at least one point that is
   unmasked when the call is made has its wavelength within the limits
   (an absent limit is open), whatever the data values are. *)
C22_HasDataIffUnmaskedWithin ==
    \A k \in 1..Len(hist) :
        hist[k].ret = UnmaskedWithin(hist[k].mask0, hist[k].start_wave,
                                     hist[k].end_wave)

(* C30: a hasData call leaves the mask as it was, so every call returns what
   the same call would have returned as the first call on the spectrum. *)
C30_HasDataPure ==
    \A k \in 1..Len(hist) :
        /\ hist[k].mask0 = hist[1].mask0
        /\ mask = hist[1].mask0
        /\ hist[k].ret = hasData(data, hist[1].mask0, SpecWave,
                                 hist[k].start_wave, hist[k].end_wave).ret

-----------------------------------------------------------------------------
(* Properties of the steps of fit_Kin_Lib_simple *)

DirectRun == args.op = "fit_Kin_Lib_simple" /\ ~outer.active

StepsOf(kind) == {k \in 1..Len(hist) : hist[k].step = kind}

LastStepOf(kind) == CHOOSE k \in StepsOf(kind) : \A j \in StepsOf(kind) : j <= k

(* C23: in a run that returns, with the chain-based sampler every Sample
   step but the last one executed used 1 chain and the last one executed
   used the configured walker count; with the ensemble sampler every step
   used the configured count. *)
C23_LastSampleFullCount ==
    (DirectRun /\ pc = "done") =>
        \A k \in StepsOf("sample") :
            hist[k].w = IF args.code = "pymc" /\ k # LastStepOf("sample")
                        THEN 1 ELSE args.walkers

(* the steps of the call in progress (of the per-template call in progress
   when nlib_guess = 0) *)
FrameSteps == {k \in 1..Len(hist) : hist[k].sub = SubIndex}

IterationOf(k) ==
    Cardinality({j \in FrameSteps : j <= k /\ hist[j].step = "sample"})

VelOfIteration(it) ==
    hist[CHOOSE j \in FrameSteps :
            hist[j].step = "sample" /\ IterationOf(j) = it].vel[1]

Midpoint == (VelRange.min + VelRange.max) \div 2

UnionWithExclusion(m0, v) ==
    [i \in Pix |-> (m0 # None /\ m0[i]) \/ maskPixelsObserved(v)[i]]

Contains(m, m0) == m0 # None => \A i \in Pix : m0[i] => m[i]

GeneratorRun ==
    args.op = "fit_Kin_Lib_simple" /\ args.gen # None /\ loop # NoLoop

(* C24: with a mask generator, the mask in force at the steps of iteration 1
   is the call's initial mask unioned with the exclusion at the midpoint
   velocity, the mask in force at the Sample and Solve steps of iteration
   i >= 2 is the initial mask unioned with the exclusion at the mean velocity
   of iteration i - 1, and the mask in force at every step contains the
   initial mask. *)
C24_MaskInForce ==
    GeneratorRun =>
        /\ ~outer.active => loop.mask_init = args.mask0
        /\ \A k \in FrameSteps :
             /\ hist[k].mask =
                  UnionWithExclusion(loop.mask_init,
                      IF IterationOf(k) = 1 THEN Midpoint
                      ELSE VelOfIteration(IterationOf(k) - 1))
             /\ Contains(hist[k].mask, loop.mask_init)

C24_Witness ==
    /\ GeneratorRun /\ ~outer.active /\ pc = "done"
    /\ args.mask0 # None /\ \E i \in Pix : args.mask0[i]
    /\ \E k \in FrameSteps :
         /\ hist[k].step = "solve" /\ IterationOf(k) = 2
         /\ hist[k].mask # hist[1].mask
         /\ hist[k].mask # mask

NegativeGuessRun == DirectRun /\ args.nlib_guess < 0 /\ args.iterations >= 1

BeyondLibraryRun ==
    DirectRun /\ args.nlib_guess > getBaseNumber(args.lib) /\ args.iterations >= 1

(* C28: a run with a negative nlib_guess is seeded with template 1 and,
   whatever iterations >= 1 is, executes one Sample step and one Solve step,
   forms no composite and leaves the mask as the solve found it; a run with
   nlib_guess beyond the library size is seeded with template 1 as well,
   fails only where the sampler or the solver fails, and returns after
   `iterations` Sample and Solve steps. *)
C28_OutOfRangeGuess ==
    /\ NegativeGuessRun =>
         /\ loop.seed = getSpec(args.lib, 1)
         /\ Cardinality(StepsOf("sample")) <= 1
         /\ Cardinality(StepsOf("solve")) <= 1
         /\ \A k \in StepsOf("sample") : hist[k].seed = getSpec(args.lib, 1)
         /\ pc \in {"diagnose", "done"} =>
              /\ Cardinality(StepsOf("sample")) = 1
              /\ Cardinality(StepsOf("solve")) = 1
              /\ mask = hist[LastStepOf("solve")].mask
              /\ loop.i = 0
    /\ BeyondLibraryRun =>
         /\ hist # << >> => hist[1].seed = getSpec(args.lib, 1)
         /\ pc = "raised" => res.at \in {"sampler", "solver"}
         /\ pc = "done" =>
              /\ Cardinality(StepsOf("sample")) = args.iterations
              /\ Cardinality(StepsOf("solve")) = args.iterations

C28_Witness ==
    /\ NegativeGuessRun /\ pc = "done"
    /\ args.iterations = MaxIter /\ args.gen # None
    /\ getBaseNumber(args.lib) > 1
    /\ Len(hist) = 2

C28_WitnessBeyond ==
    /\ BeyondLibraryRun /\ pc = "done"
    /\ args.iterations = MaxIter /\ Len(hist) = 2 * MaxIter

-----------------------------------------------------------------------------
(* The ensemble sampler's log_prior and log_posterior
   (fitKinMCMC_fixedpop, lines 410-423), applied to one trial. *)

Finite(v) == [k |-> "finite", v |-> v]

MinusInf == [k |-> "-inf", v |-> 0]

NaN == [k |-> "nan", v |-> 0]

(* floating-point addition on finite numbers, -inf and nan *)
FloatAdd(a, b) ==
    IF a.k = "nan" \/ b.k = "nan" THEN NaN
    ELSE IF a.k = "-inf" \/ b.k = "-inf" THEN MinusInf
    ELSE Finite(a.v + b.v)

TrialVels == (VelRange.min - 1)..(VelRange.max + 1)

TrialDisps == (DispRange.min - 1)..(DispRange.max + 1)

(* line 421: finite for valid errors, -inf for an infinite error, nan for a
   zero error *)
LikelihoodChoices == {Finite(0 - 3), Finite(0), Finite(5), MinusInf, NaN}

InsideBounds_Closed(lo, x, hi) == lo <= x /\ x <= hi

(* line 412: lo < x < hi *)
InsideBounds(lo, x, hi) == lo < x /\ x < hi

(* lines 410-414 *)
log_prior(vel, disp, vel_min, vel_max, vel_disp_min, vel_disp_max) ==
    IF InsideBounds(vel_min, vel, vel_max)
       /\ InsideBounds(vel_disp_min, disp, vel_disp_max)
    THEN Finite(0)
    ELSE MinusInf

(* lines 422-423, for a likelihood value *)
log_posterior(vel, disp, vel_min, vel_max, vel_disp_min, vel_disp_max, like) ==
    FloatAdd(log_prior(vel, disp, vel_min, vel_max, vel_disp_min, vel_disp_max),
             like)

InitPrior ==
    /\ data = [i \in Pix |-> i]
    /\ error = None
    /\ mask = None
    /\ normalization = None
    /\ pc = "idle"
    /\ args = [op |-> "none"]
    /\ res = [status |-> "none"]
    /\ loop = NoLoop
    /\ hist = << >>
    /\ outer = NoOuter

(* one evaluation of log_posterior by the sampler *)
LogPosterior ==
    /\ pc = "idle"
    /\ \E vel \in TrialVels, disp \in TrialDisps, like \in LikelihoodChoices :
         /\ args' = [op |-> "log_posterior", vel |-> vel, disp |-> disp,
                     like |-> like]
         /\ res' = [status |-> "ok",
                    prior |-> log_prior(vel, disp, VelRange.min, VelRange.max,
                                        DispRange.min, DispRange.max),
                    posterior |-> log_posterior(vel, disp, VelRange.min,
                                                VelRange.max, DispRange.min,
                                                DispRange.max, like)]
    /\ pc' = "done"
    /\ UNCHANGED <<data, normalization, error, mask, loop, hist, outer>>

NextPrior ==
    \/ LogPosterior

SpecPrior == InitPrior /\ [][NextPrior]_vars

PriorEvaluated == pc = "done" /\ args.op = "log_posterior"

WithinClosed ==
    /\ VelRange.min <= args.vel /\ args.vel <= VelRange.max
    /\ DispRange.min <= args.disp /\ args.disp <= DispRange.max

WithinOpen ==
    /\ VelRange.min < args.vel /\ args.vel < VelRange.max
    /\ DispRange.min < args.disp /\ args.disp < DispRange.max

(* C25 as stated: the log-prior is 0 for every trial within the closed
   bounds and minus infinity for every other trial, and the log-posterior
   of a trial outside the bounds is minus infinity whatever the likelihood
   evaluates to. *)
C25_LogPriorClosedBounds ==
    PriorEvaluated =>
        /\ res.prior = IF WithinClosed THEN Finite(0) ELSE MinusInf
        /\ ~WithinClosed => res.posterior = MinusInf

(* C25 amended: the log-prior is 0 for every trial strictly inside the
   bounds and minus infinity for every other trial, a trial on a bound
   included; the log-posterior of a trial that is not strictly inside is
   minus infinity whenever the likelihood is a number (finite or minus
   infinity). *)
C25_LogPriorOpenBounds ==
    PriorEvaluated =>
        /\ res.prior = IF WithinOpen THEN Finite(0) ELSE MinusInf
        /\ (~WithinOpen /\ args.like # NaN) => res.posterior = MinusInf
        /\ (WithinOpen /\ args.like # NaN) => res.posterior = args.like

C25_Witness ==
    /\ PriorEvaluated
    /\ args.vel = VelRange.min /\ DispRange.min < args.disp
    /\ args.disp < DispRange.max
    /\ args.like = Finite(5)
    /\ res.prior = MinusInf /\ res.posterior = MinusInf

-----------------------------------------------------------------------------
(* Properties of the draws of fit_Lib_Boots *)

BothErrorsGiven == args.vel_err # None /\ args.disp_err # None

RedrawnLibraries ==
    {KinSSP(args.lib, RedrawnVel(args.vel, args.vel_err[1], v), args.disp) :
        v \in DrawVariants}

(* C26: the kinematics are redrawn in every draw, failed and retried draws
   included, exactly when both vel_err and disp_err are given; otherwise
   the library broadened once at (vel, disp) before the loop is the one
   every draw works with; in every case a broadened library is there when
   a draw selects its sub-library. *)
C26_KinematicsRedrawn ==
    (args.op = "fit_Lib_Boots") =>
        /\ BothErrorsGiven =>
             /\ loop.redraws = loop.draws
             /\ loop.draws > 0 => loop.kin_SSP \in RedrawnLibraries
        /\ ~BothErrorsGiven =>
             /\ loop.redraws = 0
             /\ loop.kin_SSP = KinSSP(args.lib, args.vel, args.disp)
        /\ (loop.draws > 0 \/ ~BothErrorsGiven) => loop.kin_SSP # None

C26_Witness ==
    /\ args.op = "fit_Lib_Boots" /\ pc = "done"
    /\ BothErrorsGiven
    /\ loop.failed > 0 /\ loop.m = MaxBoot
    /\ loop.redraws = MaxBoot + 1
    /\ loop.kin_SSP # KinSSP(args.lib, args.vel, args.disp)

(* C29: while fit_Lib_Boots runs, the matrix has `bootstraps` rows of B
   entries and 0 <= m <= bootstraps, with m < bootstraps whenever a draw
   starts; the rows from m on (0-based) are all zero and row k < m holds the
   scattered weights of the (k+1)-th successful draw, never anything left
   by a failed draw; the call returns with m = bootstraps. *)
C29_MatrixRows ==
    (BootsOp /\ pc \in {"boots", "done"}) =>
        /\ Len(loop.coeff_full) = args.bootstraps
        /\ 0 <= loop.m /\ loop.m <= args.bootstraps
        /\ (pc = "boots" /\ loop.m # args.bootstraps) => loop.m < args.bootstraps
        /\ pc = "done" => (loop.m = args.bootstraps /\ res.coeff_full = loop.coeff_full)
        /\ Len(hist) = loop.m
        /\ \A k \in 1..args.bootstraps :
             /\ Len(loop.coeff_full[k]) = getBaseNumber(args.lib)
             /\ k > loop.m => loop.coeff_full[k] = Zeros(getBaseNumber(args.lib))
             /\ k <= loop.m =>
                  /\ hist[k].coeff # None
                  /\ loop.coeff_full[k] = hist[k].factors

C29_Witness ==
    /\ BootsOp /\ pc = "boots" /\ args.bootstraps = MaxBoot
    /\ loop.m = MaxBoot - 1 /\ loop.failed >= 1 /\ loop.last = "RuntimeError"
    /\ loop.coeff_full[MaxBoot] = Zeros(getBaseNumber(args.lib))
    /\ loop.coeff_full[MaxBoot - 1] # Zeros(getBaseNumber(args.lib))
    /\ args.par_eline = None

-----------------------------------------------------------------------------
(* fitSuperposition with nlib_guess = 0 *)

AutoReturned == SupCall /\ pc = "returned" /\ args.nlib_guess = 0

(* the chi-square of template i taken alone with weight 1 *)
AloneChi(i) == ChiOver(Unmasked, data, PreparedLib.base[i], error)

LowestAlone ==
    CHOOSE i \in 1..getBaseNumber(args.lib) :
        /\ \A j \in 1..getBaseNumber(args.lib) : AloneChi(i) <= AloneChi(j)
        /\ \A j \in 1..(i - 1) : AloneChi(j) > AloneChi(i)

(* C27: with nlib_guess = 0 each of the B templates is fitted alone with the
   call's vel, disp, mask_fit and negative, and the call returns the one-hot
   selection of the template of lowest chi-square, the earliest one on ties,
   with that template's best fit and chi-square: one of the B
   single-template results. *)
C27_AutoPicksLowestAlone ==
    AutoReturned =>
        /\ Len(res.subs) = getBaseNumber(args.lib)
        /\ \A i \in 1..getBaseNumber(args.lib) :
             /\ res.subs[i].coeff = <<1>>
             /\ res.subs[i].bestfit = PreparedLib.base[i]
             /\ res.subs[i].chi2 = Some(AloneChi(i))
             /\ Count(res.subs[i].log, "fit") = 0
        /\ res.coeff = OneHot(getBaseNumber(args.lib), LowestAlone)
        /\ res.bestfit = res.subs[LowestAlone].bestfit
        /\ res.chi2 = res.subs[LowestAlone].chi2

C27_Witness ==
    /\ AutoReturned /\ getBaseNumber(args.lib) = MaxB
    /\ args.mask_fit # None /\ args.vel # None /\ args.disp # None
    /\ res.coeff[2] /\ ~res.coeff[1]
    /\ AloneChi(2) < AloneChi(1)

C27_WitnessTie ==
    /\ AutoReturned /\ getBaseNumber(args.lib) = MaxB
    /\ res.coeff[1] /\ AloneChi(2) = AloneChi(1)
====
